---- MODULE Spec2Model ----
(***************************************************************************)
(* Model of run_tinder_simulation (backend.py): the day-by-day simulation  *)
(* of a two-group like/pass marketplace with pending-like queues, match    *)
(* sets, sent-like sets and an event log.                                  *)
(*                                                                         *)
(* Probabilities are rationals p/ProbDen, 0 <= p <= ProbDen.  A uniform    *)
(* draw in [0,1) is represented by the interval [r/ProbDen, (r+1)/ProbDen) *)
(* it falls in, so "roll < like_prob" is r < p.  Scores are exact          *)
(* rationals <<num, den>> with den > 0, compared by cross-multiplication.  *)
(***************************************************************************)
EXTENDS Integers, Sequences, FiniteSets, TLC

\* ---------------------------------------------------------------- bounds
MaxWomen == 2
MaxMen == 2
MaxDays == 3
MaxQueueSize == 2
MaxReciprocal == 1
MaxSeed == 3
MaxFractional == 1
MaxTurns == 6
MaxPairs == 2

\* ------------------------------------------------------- number encoding
ProbDen == 2
RngMod == 16
DefaultSeed == 42

Probs == 0..ProbDen
Rolls == 0..(ProbDen - 1)

\* weight_queue_penalty as a rational <<num, den>>
QueuePenaltyWeights == {<<0, 1>>, <<1, 2>>}
ReciprocalWeights == 0..MaxReciprocal
Seeds == 0..MaxSeed
\* daily_queue_size: any integer the caller passes, the slice of line 144
\* takes a negative one too
QueueSizes == (0 - 1)..MaxQueueSize

\* ------------------------------------------------------------- user ids
WomanId(i) == <<"W", i>>
ManId(i) == <<"M", i>>

\* user.startswith("W")
StartsWithW(uid) == uid[1] = "W"
StartsWithM(uid) == uid[1] = "M"

Range(s) == {s[i] : i \in 1..Len(s)}

VARIABLES
    all_women_ids, all_men_ids, all_user_ids,
    prob_women_likes_men, prob_men_likes_women,
    num_days, daily_queue_size, weight_queue_penalty, weight_reciprocal,
    random_seed,
    py_random, np_random,
    incoming_likes, matches, likes_sent, daily_logs,
    day, day_records, login_order, user, selected_candidates,
    pc, metrics,
    run_no, first_result

globals == <<all_women_ids, all_men_ids, all_user_ids,
             prob_women_likes_men, prob_men_likes_women>>
config == <<num_days, daily_queue_size, weight_queue_penalty,
            weight_reciprocal, random_seed>>
rng == <<py_random, np_random>>
simstate == <<incoming_likes, matches, likes_sent>>
vars == <<globals, config, rng, simstate, daily_logs,
          day, day_records, login_order, user, selected_candidates,
          pc, metrics, run_no, first_result>>

\* ------------------------------------------------------------- rationals
RECURSIVE Pow(_, _)
Pow(b, e) == IF e = 0 THEN 1 ELSE b * Pow(b, e - 1)

\* a >= b, a > b, a = b for rationals with positive denominators
RatGeq(a, b) == a[1] * b[2] >= b[1] * a[2]
RatGt(a, b) == a[1] * b[2] > b[1] * a[2]
RatEq(a, b) == a[1] * b[2] = b[1] * a[2]

\* -------------------------------------------------- probability lookups
\* get_prob / get_reciprocal as bound in the user loop
get_prob(u, cand) ==
    IF StartsWithW(u) THEN prob_women_likes_men[<<u, cand>>]
    ELSE prob_men_likes_women[<<u, cand>>]

get_reciprocal(u, cand) ==
    IF StartsWithW(u) THEN prob_men_likes_women[<<cand, u>>]
    ELSE prob_women_likes_men[<<cand, u>>]

\* ------------------------------------------------------ sequence helpers
RECURSIVE SelectSeqBy(_, _)
\* list comprehension [x for x in s if Keep(x)], Keep given as a set
SelectSeqBy(s, keep) ==
    IF s = <<>> THEN <<>>
    ELSE IF Head(s) \in keep THEN <<Head(s)>> \o SelectSeqBy(Tail(s), keep)
    ELSE SelectSeqBy(Tail(s), keep)

RECURSIVE Flatten(_)
Flatten(ss) == IF ss = <<>> THEN <<>> ELSE Head(ss) \o Flatten(Tail(ss))

\* variant: the list is not cut
SliceToAll(lst, k) == lst

\* Python slice lst[:k] for any integer k
SliceTo(lst, k) ==
    LET n == Len(lst)
        stop == IF k >= 0 THEN (IF k < n THEN k ELSE n)
                ELSE (IF n + k > 0 THEN n + k ELSE 0)
    IN SubSeq(lst, 1, stop)

\* ------------------------------------------------------------ generators
\* Stand-ins for the two seeded generators (random, numpy.random): each is
\* a deterministic function of its state, which the seed fixes.
\* variant: random.seed left out, the generator carries on from its last state
PySeedMissing(seed) == py_random

PySeed(seed) == seed % RngMod
NpSeed(seed) == (seed + 1) % RngMod
PyNext(s) == (5 * s + 3) % RngMod
NpNext(s) == (13 * s + 7) % RngMod

\* random._randbelow(n): floor(u * n) for u = s / RngMod
RandBelow(n, s) == (s * n) \div RngMod
\* numpy.random.rand(): the interval of width 1/ProbDen holding s / RngMod
RandRoll(s) == (s * ProbDen) \div RngMod

Swap(x, i, j) == [x EXCEPT ![i] = x[j], ![j] = x[i]]

RECURSIVE ShuffleFrom(_, _, _)
\* random.shuffle: for i in reversed(range(1, len(x))): j = randbelow(i + 1);
\* x[i], x[j] = x[j], x[i].   Result <<shuffled list, generator state>>.
ShuffleFrom(x, i, s) ==
    IF i < 2 THEN <<x, s>>
    ELSE LET s1 == PyNext(s)
             j == RandBelow(i, s1) + 1
         IN ShuffleFrom(Swap(x, i, j), i - 1, s1)

Shuffle(x, s) == ShuffleFrom(x, Len(x), s)

\* variant: users drawn with replacement, as random.choices would
PermsWithRepeats(x) == [1..Len(x) -> Range(x)]

\* every order random.shuffle can produce
Perms(x) ==
    {p \in [1..Len(x) -> Range(x)] : \A e \in Range(x) : \E i \in 1..Len(x) : p[i] = e}

\* ------------------------------------------------------- candidate lists
\* variant of the pool: the match filter left out
candidate_pool_unfiltered(u) ==
    IF StartsWithW(u) THEN all_men_ids ELSE all_women_ids

\* lines 104-111: opposite group, not already matched
candidate_pool(u) ==
    IF StartsWithW(u)
    THEN SelectSeqBy(all_men_ids, Range(all_men_ids) \ matches[u])
    ELSE SelectSeqBy(all_women_ids, Range(all_women_ids) \ matches[u])

RECURSIVE BuildIncoming(_, _)
\* lines 114-117: sender -> earliest sent_day over the user's queue
BuildIncoming(q, acc) ==
    IF q = <<>> THEN acc
    ELSE LET sender == Head(q)[1]
             sent_day == Head(q)[2]
         IN BuildIncoming(Tail(q),
              IF sender \notin DOMAIN acc
              THEN [x \in DOMAIN acc \cup {sender} |->
                        IF x = sender THEN sent_day ELSE acc[x]]
              ELSE IF sent_day < acc[sender]
                   THEN [acc EXCEPT ![sender] = sent_day]
                   ELSE acc)

\* variant: only the entries sent on the current day are read
incoming_for_user_today(u) ==
    BuildIncoming(SelectSeq(incoming_likes[u], LAMBDA e : e[2] = day), <<>>)

incoming_for_user(u) == BuildIncoming(incoming_likes[u], <<>>)

\* variant: the reciprocal factor applied to incoming candidates as well
IncomingScoreReciprocal(u, cand) ==
    <<get_prob(u, cand) * Pow(get_reciprocal(u, cand), weight_reciprocal),
      ProbDen * Pow(ProbDen, weight_reciprocal)>>

\* line 124: score of an incoming candidate, P_ij
IncomingScore(u, cand) == <<get_prob(u, cand), ProbDen>>

\* variant: the queue penalty factor left out
FreshScoreNoPenalty(u, cand) ==
    <<get_prob(u, cand) * Pow(get_reciprocal(u, cand), weight_reciprocal),
      ProbDen * Pow(ProbDen, weight_reciprocal)>>

\* lines 133-134: P_ij * 1/(1 + w_queue*Q_j) * (P_ji)^(w_reciprocal)
FreshScore(u, cand) ==
    LET q == Len(incoming_likes[cand])
        wn == weight_queue_penalty[1]
        wd == weight_queue_penalty[2]
    IN <<get_prob(u, cand) * wd * Pow(get_reciprocal(u, cand), weight_reciprocal),
         ProbDen * (wd + wn * q) * Pow(ProbDen, weight_reciprocal)>>

\* lines 120-140: one record per pool member, in pool order
CandRecord(u, cand, d) ==
    LET inc == incoming_for_user(u)
    IN IF cand \in DOMAIN inc
       THEN [CandidateID |-> cand, Score |-> IncomingScore(u, cand),
             Source |-> "incoming", SentDay |-> inc[cand]]
       ELSE [CandidateID |-> cand, Score |-> FreshScore(u, cand),
             Source |-> "fresh", SentDay |-> d]

candidate_info(u, d) ==
    LET pool == candidate_pool(u)
    IN [i \in 1..Len(pool) |-> CandRecord(u, pool[i], d)]

RECURSIVE InsertAsc(_, _)
\* variant of the sort: ascending, as if reverse=True were missing
InsertAsc(sorted, x) ==
    IF sorted = <<>> THEN <<x>>
    ELSE IF RatGeq(x.Score, Head(sorted).Score)
         THEN <<Head(sorted)>> \o InsertAsc(Tail(sorted), x)
         ELSE <<x>> \o sorted

RECURSIVE InsertDesc(_, _)
\* place x after every element whose score is >= x's score
InsertDesc(sorted, x) ==
    IF sorted = <<>> THEN <<x>>
    ELSE IF RatGeq(Head(sorted).Score, x.Score)
         THEN <<Head(sorted)>> \o InsertDesc(Tail(sorted), x)
         ELSE <<x>> \o sorted

RECURSIVE SortedFrom(_, _)
SortedFrom(acc, rest) ==
    IF rest = <<>> THEN acc
    ELSE SortedFrom(InsertDesc(acc, Head(rest)), Tail(rest))

\* line 143: sorted(candidate_info, key=Score, reverse=True), which is stable
candidate_info_sorted(u, d) == SortedFrom(<<>>, candidate_info(u, d))

\* line 144
SelectTop(u, d, k) == SliceTo(candidate_info_sorted(u, d), k)

\* ------------------------------------------------------- state updates
\* lines 91-93: the per-run dictionaries, empty for every user
EmptyQueues(ids) == [uid \in Range(ids) |-> <<>>]
EmptySets(ids) == [uid \in Range(ids) |-> {}]

\* variant: the comparison of line 156 made non-strict
DecisionNonStrict(roll, like_prob) == IF roll <= like_prob THEN "Like" ELSE "Pass"

\* line 156
Decision(roll, like_prob) == IF roll < like_prob THEN "Like" ELSE "Pass"

\* variant: the test of line 169 moved out of the Like branch
ResolvesOnAnyDecision(decision, source) == source = "incoming"

\* lines 156 and 169: the pending entry is looked for only inside the Like
\* branch, and only for a candidate that came from the incoming list
Resolves(decision, source) == decision = "Like" /\ source = "incoming"

\* variants of the match update: only the acting side, the candidate added
\* to its own set, and assignment in place of add
AddMatchOneSided(m, u, cand) == [m EXCEPT ![u] = @ \cup {cand}]
AddMatchSelf(m, u, cand) == [m EXCEPT ![u] = @ \cup {cand}, ![cand] = @ \cup {cand}]
AddMatchAssign(m, u, cand) == [m EXCEPT ![u] = {cand}, ![cand] = {u}]

\* lines 161-162
AddMatch(m, u, cand) == [m EXCEPT ![u] = @ \cup {cand}, ![cand] = @ \cup {u}]

\* variant: the sent like is not recorded
AddLikeSentDropped(ls, u, cand) == ls

\* variant: the set is assigned, not added to
AddLikeSentReplace(ls, u, cand) == [ls EXCEPT ![u] = {cand}]

\* line 164
AddLikeSent(ls, u, cand) == [ls EXCEPT ![u] = @ \cup {cand}]

\* variant: the entry lands in the acting user's own queue
AppendPendingToSelf(il, u, cand, d) == [il EXCEPT ![u] = Append(@, <<cand, d>>)]

\* line 167
AppendPending(il, u, cand, d) == [il EXCEPT ![cand] = Append(@, <<u, d>>)]

\* variant: every entry sent by cand is dropped
DeleteAllFrom(q, cand) == SelectSeq(q, LAMBDA e : e[1] # cand)

RECURSIVE DeleteFirstFrom(_, _)
\* lines 170-173: delete the first entry whose sender is cand, then break
DeleteFirstFrom(q, cand) ==
    IF q = <<>> THEN <<>>
    ELSE IF Head(q)[1] = cand THEN Tail(q)
    ELSE <<Head(q)>> \o DeleteFirstFrom(Tail(q), cand)

\* variant: the user's whole queue is cleared
RemovePendingAll(il, u, cand) == [il EXCEPT ![u] = <<>>]

RemovePending(il, u, cand) == [il EXCEPT ![u] = DeleteFirstFrom(@, cand)]

\* the log as built so far: closed days, then the open day's records
LogSoFar ==
    Flatten(daily_logs) \o (IF pc \in {"user", "cand"} THEN day_records ELSE <<>>)

\* number of records of a log satisfying a filter, given as a set of records
CountIn(log, keep) == Cardinality({i \in 1..Len(log) : log[i] \in keep})

\* variant: the sum taken over every key of f, both groups
SumLenAllKeys(f, ids) ==
    Cardinality({pr \in (DOMAIN f) \X (DOMAIN f) : pr[2] \in f[pr[1]]})

RECURSIVE SumLen(_, _)
\* sum(len(f[uid]) for uid in ids) for set-valued f
SumLen(f, ids) ==
    IF ids = <<>> THEN 0 ELSE Cardinality(f[Head(ids)]) + SumLen(f, Tail(ids))

\* variant: only the first user's queue is read
AllEntriesFirstOnly(il, ids) == IF ids = <<>> THEN <<>> ELSE il[Head(ids)]

RECURSIVE AllEntries(_, _)
\* every pending entry, walking the users in all_user_ids order (lines 197-198)
AllEntries(il, ids) ==
    IF ids = <<>> THEN <<>> ELSE il[Head(ids)] \o AllEntries(il, Tail(ids))

\* lines 190-220
Metrics(log) ==
    LET likes == {i \in 1..Len(log) : log[i].Decision = "Like"}
        entries == AllEntries(incoming_likes, all_user_ids)
        stale == {i \in 1..Len(log) :
                     /\ log[i].Source = "incoming"
                     /\ log[i].Decision = "Like"
                     /\ log[i].Delay >= 1}
        unseen_men == Cardinality({i \in 1..Len(entries) : StartsWithM(entries[i][1])})
        unseen_women == Cardinality({i \in 1..Len(entries) : StartsWithW(entries[i][1])})
        stale_men == Cardinality({i \in stale : StartsWithM(log[i].CandidateID)})
        stale_women == Cardinality({i \in stale : StartsWithW(log[i].CandidateID)})
    IN [likes_by_men |-> Cardinality({i \in likes : StartsWithM(log[i].UserID)}),
        likes_by_women |-> Cardinality({i \in likes : StartsWithW(log[i].UserID)}),
        unique_matches |-> SumLen(matches, all_men_ids),
        unseen_likes_men |-> unseen_men,
        unseen_likes_women |-> unseen_women,
        stale_likes_men |-> stale_men,
        stale_likes_women |-> stale_women,
        total_unseen |-> unseen_men + unseen_women,
        total_stale |-> stale_men + stale_women]

NoMetrics == [likes_by_men |-> 0, likes_by_women |-> 0, unique_matches |-> 0,
              unseen_likes_men |-> 0, unseen_likes_women |-> 0,
              stale_likes_men |-> 0, stale_likes_women |-> 0,
              total_unseen |-> 0, total_stale |-> 0]

\* ---------------------------------------------------------------- actions
\* lines 86-94: entry of run_tinder_simulation
Enter ==
    /\ pc = "call"
    /\ py_random' = PySeed(random_seed)
    /\ np_random' = NpSeed(random_seed)
    /\ incoming_likes' = EmptyQueues(all_user_ids)
    /\ matches' = EmptySets(all_user_ids)
    /\ likes_sent' = EmptySets(all_user_ids)
    /\ daily_logs' = <<>>
    /\ day' = 0
    /\ day_records' = <<>>
    /\ login_order' = <<>>
    /\ selected_candidates' = <<>>
    /\ metrics' = NoMetrics
    /\ pc' = "day"
    /\ UNCHANGED <<globals, config, user, run_no, first_result>>

\* lines 97-100: next day, login order = shuffled copy of all_user_ids
StartDayWith(order, py) ==
    /\ pc = "day"
    /\ day < num_days
    /\ day' = day + 1
    /\ day_records' = <<>>
    /\ login_order' = order
    /\ py_random' = py
    /\ pc' = "user"
    /\ UNCHANGED <<globals, config, np_random, simstate, daily_logs, user,
                   selected_candidates, metrics, run_no, first_result>>

StartDay == \E order \in Perms(all_user_ids) : StartDayWith(order, py_random)

StartDaySeeded ==
    /\ pc = "day"
    /\ LET r == Shuffle(all_user_ids, py_random) IN StartDayWith(r[1], r[2])

\* lines 102-144: the next user logs in and is given the top candidates
BeginTurn ==
    /\ pc = "user"
    /\ login_order # <<>>
    /\ LET u == Head(login_order)
           sel == SelectTop(u, day, daily_queue_size)
       IN /\ user' = u
          /\ selected_candidates' = sel
          /\ pc' = IF sel = <<>> THEN "user" ELSE "cand"
    /\ login_order' = Tail(login_order)
    /\ UNCHANGED <<globals, config, rng, simstate, daily_logs, day,
                   day_records, metrics, run_no, first_result>>

\* lines 147-186: one shown candidate is decided and recorded
DecideWith(roll, np) ==
    /\ pc = "cand"
    /\ selected_candidates # <<>>
    /\ LET cand_record == Head(selected_candidates)
           cand == cand_record.CandidateID
           source == cand_record.Source
           sent_day == cand_record.SentDay
           like_prob == get_prob(user, cand)
           decision == Decision(roll, like_prob)
           liked == decision = "Like"
           match_formed == liked /\ user \in likes_sent[cand]
           il1 == IF liked /\ ~match_formed /\ source = "fresh"
                  THEN AppendPending(incoming_likes, user, cand, day)
                  ELSE incoming_likes
           il2 == IF Resolves(decision, source)
                  THEN RemovePending(il1, user, cand)
                  ELSE il1
       IN /\ matches' = IF match_formed THEN AddMatch(matches, user, cand)
                        ELSE matches
          /\ likes_sent' = IF liked /\ ~match_formed
                           THEN AddLikeSent(likes_sent, user, cand)
                           ELSE likes_sent
          /\ incoming_likes' = il2
          /\ day_records' = Append(day_records,
                [Day |-> day, UserID |-> user, CandidateID |-> cand,
                 Score |-> cand_record.Score, Source |-> source,
                 LikeProbability |-> like_prob, RandomRoll |-> roll,
                 Decision |-> decision, MatchFormed |-> match_formed,
                 Delay |-> day - sent_day])
    /\ selected_candidates' = Tail(selected_candidates)
    /\ pc' = IF Tail(selected_candidates) = <<>> THEN "user" ELSE "cand"
    /\ np_random' = np
    /\ UNCHANGED <<globals, config, py_random, daily_logs, day, login_order,
                   user, metrics, run_no, first_result>>

\* One draw per outcome: the least roll (the boundary case roll = 0) and the
\* least roll that is not below like_prob.  Rolls in between decide alike.
RollsFor(like_prob) == {r \in Rolls : r = 0 \/ r = like_prob}

Decide ==
    /\ selected_candidates # <<>>
    /\ \E roll \in RollsFor(get_prob(user, Head(selected_candidates).CandidateID)) :
          DecideWith(roll, np_random)

DecideSeeded ==
    /\ pc = "cand"
    /\ LET s1 == NpNext(np_random) IN DecideWith(RandRoll(s1), s1)

\* line 187
EndDay ==
    /\ pc = "user"
    /\ login_order = <<>>
    /\ daily_logs' = Append(daily_logs, day_records)
    /\ pc' = "day"
    /\ UNCHANGED <<globals, config, rng, simstate, day, day_records,
                   login_order, user, selected_candidates, metrics,
                   run_no, first_result>>

\* lines 189-220 and 351: the log is concatenated, the metrics derived.
\* pandas raises on an empty list of frames (no day ran) and on a frame
\* without columns (no record was ever appended).
Finish ==
    /\ pc = "day"
    /\ day >= num_days
    /\ IF daily_logs = <<>> \/ Flatten(daily_logs) = <<>>
       THEN /\ pc' = "error"
            /\ UNCHANGED metrics
       ELSE /\ pc' = "done"
            /\ metrics' = Metrics(Flatten(daily_logs))
    /\ UNCHANGED <<globals, config, rng, simstate, daily_logs, day,
                   day_records, login_order, user, selected_candidates,
                   run_no, first_result>>

\* the value returned at line 351
full_log == Flatten(daily_logs)

\* ----------------------------------------------------------------- inputs
WomenIds(n) == [i \in 1..n |-> WomanId(i)]
MenIds(n) == [i \in 1..n |-> ManId(i)]

Pairs(xs, ys) == {<<x, y>> : x \in Range(xs), y \in Range(ys)}

\* entries strictly between 0 and 1: the decisions a draw can turn
Fractional(t) == Cardinality({pr \in DOMAIN t : t[pr] # 0 /\ t[pr] # ProbDen})

Uniform(t) == \A a, b \in DOMAIN t : t[a] = t[b]

\* the probability matrices read at lines 24-25: any table over a population
\* of at most MaxPairs pairs, a constant table over a larger one
Tables(xs, ys) ==
    {t \in [Pairs(xs, ys) -> Probs] :
        Len(xs) * Len(ys) > MaxPairs => Uniform(t)}

InitWith(seeds) ==
    /\ \E nw \in 1..MaxWomen, nm \in 1..MaxMen :
         /\ all_women_ids = WomenIds(nw)
         /\ all_men_ids = MenIds(nm)
         /\ all_user_ids = WomenIds(nw) \o MenIds(nm)
    /\ prob_women_likes_men \in Tables(all_women_ids, all_men_ids)
    /\ prob_men_likes_women \in Tables(all_men_ids, all_women_ids)
    /\ Fractional(prob_women_likes_men) + Fractional(prob_men_likes_women)
          <= MaxFractional
    /\ num_days \in 0..MaxDays
    /\ num_days * Len(all_user_ids) <= MaxTurns
    /\ daily_queue_size \in QueueSizes
    /\ weight_queue_penalty \in QueuePenaltyWeights
    /\ weight_reciprocal \in ReciprocalWeights
    /\ random_seed \in seeds
    /\ py_random = 0
    /\ np_random = 0
    /\ incoming_likes = <<>>
    /\ matches = <<>>
    /\ likes_sent = <<>>
    /\ daily_logs = <<>>
    /\ day = 0
    /\ day_records = <<>>
    /\ login_order = <<>>
    /\ user = all_user_ids[1]
    /\ selected_candidates = <<>>
    /\ pc = "call"
    /\ metrics = NoMetrics
    /\ run_no = 1
    /\ first_result = <<>>

\* one call, any login orders and any draws: every seed at once
Init == InitWith({DefaultSeed})

Next == Enter \/ StartDay \/ BeginTurn \/ Decide \/ EndDay \/ Finish

Spec == Init /\ [][Next]_vars

\* ------------------------------------------------------ two seeded calls
\* The same process calls run_tinder_simulation again with the arguments of
\* the first call; the first call's return value (line 351) is kept aside.
\* The locals of the first call are dead: Enter rebuilds them.
Rerun ==
    /\ pc = "done"
    /\ run_no = 1
    /\ first_result' = <<full_log, matches>>
    /\ run_no' = 2
    /\ pc' = "call"
    /\ UNCHANGED <<globals, config, rng, simstate, daily_logs, day,
                   day_records, login_order, user, selected_candidates,
                   metrics>>

InitSeeded == InitWith(Seeds)

NextSeeded ==
    Enter \/ StartDaySeeded \/ BeginTurn \/ DecideSeeded \/ EndDay \/ Finish
    \/ Rerun

SpecSeeded == InitSeeded /\ [][NextSeeded]_vars

\* The interpreter always takes the next step of the call: nothing blocks
\* between statements (single thread, no waits).
\* Termination does not read the scores: the weights keep their defaults
\* (lines 60-61).
InitFair ==
    /\ Init
    /\ weight_queue_penalty = <<1, 2>>
    /\ weight_reciprocal = 1

SpecFair == InitFair /\ [][Next]_vars /\ WF_vars(Next)

\* ----------------------------------------------------------- properties
Users == Range(all_user_ids)
Running == pc # "call"
AtEnd == pc = "done"

\* C2: match symmetry.  In every state of a run, after every processed
\* decision and at run end, v is in matches[u] iff u is in matches[v].
MatchSymmetry ==
    Running => \A u, v \in Users : (v \in matches[u]) <=> (u \in matches[v])

\* a match has formed and the run is over
MatchSymmetryWitness ==
    /\ AtEnd
    /\ \E u, v \in Users : v \in matches[u] /\ u \in matches[v]

\* C3: no match set contains its owner or a user of the owner's group.
NoIntraGroupMatch ==
    Running => \A u \in Users : \A v \in matches[u] : v # u /\ v[1] # u[1]

\* both a woman and a man hold a match, in a population with two of a group
NoIntraGroupMatchWitness ==
    /\ Running
    /\ Len(all_user_ids) >= 3
    /\ \E u, v \in Users : StartsWithW(u) /\ StartsWithM(v) /\ v \in matches[u]

\* C4: match monotonicity.  No step of a run removes an id from a match set.
MatchMonotone ==
    [][\A u \in DOMAIN matches :
          u \in DOMAIN matches' /\ matches[u] \subseteq matches'[u]]_vars

\* a user's match set grew twice
MatchMonotoneWitness ==
    Running /\ \E u \in Users : Cardinality(matches[u]) >= 2

\* u and c are the pair of record r, in either role
SamePair(r1, r2) ==
    \/ r1.UserID = r2.UserID /\ r1.CandidateID = r2.CandidateID
    \/ r1.UserID = r2.CandidateID /\ r1.CandidateID = r2.UserID

\* C5: once an event with MatchFormed is recorded for u and c, no later
\* event of the log is about that pair, in either direction.
MatchedNeverShownAgain ==
    LET log == LogSoFar
    IN \A i, j \in 1..Len(log) :
          (i < j /\ log[i].MatchFormed) => ~SamePair(log[i], log[j])

\* after a match, one of the matched users took a turn on a later day and
\* was shown somebody else
MatchedNeverShownAgainWitness ==
    LET log == LogSoFar
    IN \E i, j \in 1..Len(log) :
          /\ i < j
          /\ log[i].MatchFormed
          /\ log[j].Day > log[i].Day
          /\ log[j].UserID \in {log[i].UserID, log[i].CandidateID}

\* events of the log in which s liked u on day d
SendEvents(log, s, u, d) ==
    {i \in 1..Len(log) :
        /\ log[i].UserID = s
        /\ log[i].CandidateID = u
        /\ log[i].Day = d
        /\ log[i].Decision = "Like"}

\* C6: queue conservation.  For every pending entry (s, d) left in u's queue
\* at run end, exactly one event has s send that like to u, and u made no
\* Like decision on s after it.
QueueConservation ==
    AtEnd =>
      \A u \in Users : \A k \in 1..Len(incoming_likes[u]) :
         LET s == incoming_likes[u][k][1]
             d == incoming_likes[u][k][2]
             sends == SendEvents(full_log, s, u, d)
         IN /\ Cardinality(sends) = 1
            /\ \A i \in sends : \A j \in 1..Len(full_log) :
                  j > i => ~(/\ full_log[j].UserID = u
                             /\ full_log[j].CandidateID = s
                             /\ full_log[j].Decision = "Like")

Min2(a, b) == IF a < b THEN a ELSE b

\* C7: score ordering.  In every user turn with daily_queue_size >= 1 the
\* shown candidates are min(K, |pool|) distinct pool members carrying their
\* own scores, in non-increasing score order, and no pool member left out
\* scores strictly higher than a shown one; the records of one user-day
\* appear in the log in non-increasing score order.
ScoreOrdering ==
    /\ [][(pc = "user" /\ login_order # <<>> /\ daily_queue_size >= 1) =>
            LET u == Head(login_order)
                pool == candidate_pool(u)
                sel == selected_candidates'
                shown == {sel[i].CandidateID : i \in 1..Len(sel)}
            IN /\ Len(sel) = Min2(daily_queue_size, Len(pool))
               /\ Cardinality(shown) = Len(sel)
               /\ shown \subseteq Range(pool)
               /\ \A i \in 1..Len(sel) :
                     sel[i].Score = CandRecord(u, sel[i].CandidateID, day).Score
               /\ \A i, j \in 1..Len(sel) :
                     i < j => RatGeq(sel[i].Score, sel[j].Score)
               /\ \A c \in Range(pool) \ shown : \A i \in 1..Len(sel) :
                     ~RatGt(CandRecord(u, c, day).Score, sel[i].Score)]_vars
    /\ [](\A i, j \in 1..Len(LogSoFar) :
             (/\ i < j
              /\ LogSoFar[i].Day = LogSoFar[j].Day
              /\ LogSoFar[i].UserID = LogSoFar[j].UserID)
             => RatGeq(LogSoFar[i].Score, LogSoFar[j].Score))

\* a turn has just begun in which one of two pool members is shown, and the
\* one left out stands first in the pool with a strictly lower score
ScoreOrderingWitness ==
    /\ pc = "cand"
    /\ daily_queue_size = 1
    /\ Len(selected_candidates) = 1
    /\ LET pool == candidate_pool(user)
       IN /\ Len(pool) = 2
          /\ selected_candidates[1].CandidateID = pool[2]
          /\ RatGt(selected_candidates[1].Score,
                   CandRecord(user, pool[1], day).Score)

AllProbs(v) ==
    /\ \A pr \in DOMAIN prob_women_likes_men : prob_women_likes_men[pr] = v
    /\ \A pr \in DOMAIN prob_men_likes_women : prob_men_likes_women[pr] = v

\* one woman A, one man B, P(A likes B) = 1.0, P(B likes A) = 0.0, 2 days
OneSidedScenario ==
    /\ Len(all_women_ids) = 1
    /\ Len(all_men_ids) = 1
    /\ prob_women_likes_men[<<WomanId(1), ManId(1)>>] = ProbDen
    /\ prob_men_likes_women[<<ManId(1), WomanId(1)>>] = 0
    /\ num_days = 2
    /\ daily_queue_size >= 1

\* C8: in the one-sided scenario B always passes on A, no match forms, and
\* at run end B's queue holds exactly one entry, from A: one unseen like, no
\* stale like.
OneSidedUnseenOne ==
    OneSidedScenario =>
      /\ \A i \in 1..Len(LogSoFar) :
            /\ LogSoFar[i].UserID = ManId(1) => LogSoFar[i].Decision = "Pass"
            /\ ~LogSoFar[i].MatchFormed
      /\ AtEnd =>
            /\ metrics.total_unseen = 1
            /\ Len(incoming_likes[ManId(1)]) = 1
            /\ incoming_likes[ManId(1)][1][1] = WomanId(1)
            /\ metrics.total_stale = 0

\* 2 users per group, 1 day, queue size 2, every probability 1.0
AllOnesScenario ==
    /\ Len(all_women_ids) = 2
    /\ Len(all_men_ids) = 2
    /\ AllProbs(ProbDen)
    /\ num_days = 1
    /\ daily_queue_size = 2

AllLikes == \A i \in 1..Len(LogSoFar) : LogSoFar[i].Decision = "Like"

\* C9 as stated: every shown pair decides Like and the match count over one
\* group is 2 or 0 at the end of the day.
AllOnesTwoOrZero ==
    AllOnesScenario =>
      /\ AllLikes
      /\ AtEnd => metrics.unique_matches \in {0, 2}

\* C9 as amended: every shown pair decides Like and, whatever the login
\* order, each of the four woman-man pairs is matched at the end of the day:
\* the match count over either group is 4.
AllOnesAllMatched ==
    AllOnesScenario =>
      /\ AllLikes
      /\ AtEnd =>
            /\ metrics.unique_matches = 4
            /\ SumLen(matches, all_women_ids) = 4

\* the all-ones run is over and all eight decisions are in the log
AllOnesAllMatchedWitness ==
    AllOnesScenario /\ AtEnd /\ Len(full_log) = 8

\* every probability 0.0, at least one day, at least one candidate a turn
AllZerosScenario ==
    /\ AllProbs(0)
    /\ num_days >= 1
    /\ daily_queue_size >= 1

\* C10: with every probability 0.0 the log never holds a Like or a match,
\* the run ends normally with a non-empty log, and all match sets and all
\* pending-like queues are empty at run end.
AllZerosNothingHappens ==
    AllZerosScenario =>
      /\ \A i \in 1..Len(LogSoFar) :
            LogSoFar[i].Decision = "Pass" /\ ~LogSoFar[i].MatchFormed
      /\ pc # "error"
      /\ AtEnd =>
            /\ full_log # <<>>
            /\ \A u \in Users : matches[u] = {} /\ incoming_likes[u] = <<>>

\* an all-zeros run of two days over three users is over
AllZerosNothingHappensWitness ==
    /\ AllZerosScenario
    /\ AtEnd
    /\ num_days = 2
    /\ Len(all_user_ids) = 3
    /\ Len(full_log) >= 6

\* C1: determinism.  A second call with the same tables, configuration and
\* seed returns the event log and the match sets of the first call, record
\* for record; nothing the first call left behind reaches the second.
Determinism ==
    run_no = 2 =>
      /\ pc # "error"
      /\ AtEnd => <<full_log, matches>> = first_result
      /\ \A i \in 1..Len(LogSoFar) :
            i <= Len(first_result[1]) /\ LogSoFar[i] = first_result[1][i]

\* the second of two calls has returned after a run with a Like, a Pass and
\* a match in it
DeterminismWitness ==
    /\ run_no = 2
    /\ AtEnd
    /\ \E u \in Users : matches[u] # {}
    /\ \E i, j \in 1..Len(full_log) :
          full_log[i].Decision = "Like" /\ full_log[j].Decision = "Pass"

\* the configurations section 7 of the design calls invalid
InvalidConfig == num_days < 1 \/ daily_queue_size < 1

\* C11: an invalid configuration is rejected at entry: the call fails before
\* any queue, match set, sent-like set or event record exists or changes.
InvalidConfigRejected ==
    InvalidConfig =>
      /\ pc \in {"call", "error"}
      /\ incoming_likes = <<>>
      /\ matches = <<>>
      /\ likes_sent = <<>>
      /\ LogSoFar = <<>>

Terminated == pc \in {"done", "error"}

IsPermutation(order, ids) ==
    /\ Len(order) = Len(ids)
    /\ \A e \in Range(ids) : Cardinality({i \in 1..Len(order) : order[i] = e}) = 1

\* C12: termination.  For num_days >= 1 the call always ends, having run the
\* days 1..num_days in increasing order and no others; each day starts with
\* a login order that is a permutation of all users and ends only when every
\* one of them has taken its turn, one user per turn in that order; the Day
\* field of the log never decreases and stays within 1..num_days.
Termination ==
    /\ (num_days >= 1) ~> Terminated
    /\ [](num_days >= 1 =>
            /\ day \in 0..num_days
            /\ Terminated => (day = num_days /\ Len(daily_logs) = num_days)
            /\ \A d \in 1..Len(daily_logs) : \A i \in 1..Len(daily_logs[d]) :
                  daily_logs[d][i].Day = d
            /\ \A i, j \in 1..Len(LogSoFar) :
                  i <= j => /\ LogSoFar[i].Day <= LogSoFar[j].Day
                            /\ LogSoFar[i].Day \in 1..num_days)
    /\ [][num_days >= 1 =>
            /\ (pc = "day" /\ pc' = "user") =>
                  /\ day' = day + 1
                  /\ IsPermutation(login_order', all_user_ids)
            /\ (pc = "user" /\ login_order # <<>>) =>
                  /\ user' = Head(login_order)
                  /\ login_order' = Tail(login_order)
            /\ pc = "cand" => (login_order' = login_order /\ user' = user)
            /\ (pc = "user" /\ pc' = "day") => login_order = <<>>
            /\ pc # "day" => day' = day]_vars

\* a run of three days has ended with records of every day in its log
TerminationWitness ==
    /\ AtEnd
    /\ num_days = 3
    /\ \A d \in 1..3 : \E i \in 1..Len(full_log) : full_log[i].Day = d

\* matched pairs as seen from one group's match sets
PairsOf(ids) == {<<u, v>> : u \in Range(ids), v \in Users} \cap
                {pr \in Users \X Users : pr[2] \in matches[pr[1]]}

\* C13: at run end the unique-matches metric (sum of the men's match-set
\* sizes) equals the sum of the women's, the number of distinct matched
\* woman-man pairs, and the number of events with MatchFormed.
UniqueMatchesMetric ==
    AtEnd =>
      LET menPairs == PairsOf(all_men_ids)
          womenPairs == PairsOf(all_women_ids)
          formed == {i \in 1..Len(full_log) : full_log[i].MatchFormed}
      IN /\ metrics.unique_matches = Cardinality(menPairs)
         /\ Cardinality(womenPairs) = Cardinality(menPairs)
         /\ womenPairs = {<<pr[2], pr[1]>> : pr \in menPairs}
         /\ Cardinality(formed) = Cardinality(menPairs)

\* a run has ended with two matched pairs
UniqueMatchesMetricWitness ==
    AtEnd /\ metrics.unique_matches >= 2

\* a step that decides the head of selected_candidates
DecideStep == pc = "cand" /\ selected_candidates # <<>>

\* the record the step appends
NewRecord == day_records'[Len(day_records')]

NoEntryAdded ==
    \A x \in Users : Len(incoming_likes'[x]) <= Len(incoming_likes[x])

\* C14: like processing.  When u decides Like on c: if u is already in c's
\* sent-likes set a match forms, both match sets gain the other user, and no
\* sent-like or pending entry is added; otherwise c joins u's sent-likes
\* set, no match forms, and exactly when c was fresh one entry (u, day) is
\* appended to the tail of c's queue.
LikeProcessing ==
    [][(DecideStep /\ NewRecord.Decision = "Like") =>
         LET c == Head(selected_candidates).CandidateID
             u == user
         IN IF u \in likes_sent[c]
            THEN /\ NewRecord.MatchFormed
                 /\ matches' = [matches EXCEPT ![u] = @ \cup {c},
                                               ![c] = @ \cup {u}]
                 /\ likes_sent' = likes_sent
                 /\ NoEntryAdded
            ELSE /\ ~NewRecord.MatchFormed
                 /\ matches' = matches
                 /\ likes_sent' = [likes_sent EXCEPT ![u] = @ \cup {c}]
                 /\ IF Head(selected_candidates).Source = "fresh"
                    THEN incoming_likes' =
                           [incoming_likes EXCEPT ![c] = Append(@, <<u, day>>)]
                    ELSE NoEntryAdded]_vars

\* the latest decision was a Like that formed a match, after a Like that
\* queued a pending entry on the same day
LikeProcessingWitness ==
    /\ pc \in {"user", "cand"}
    /\ Len(day_records) >= 2
    /\ day_records[Len(day_records)].MatchFormed
    /\ \E i \in 1..Len(day_records) :
          /\ day_records[i].Decision = "Like"
          /\ day_records[i].Source = "fresh"
          /\ ~day_records[i].MatchFormed

\* C15: a Pass changes no simulation state.  Queues, match sets and
\* sent-likes sets are as before the decision (so a passed incoming
\* candidate keeps its pending entry); only the event record is appended.
PassChangesNothing ==
    [][(DecideStep /\ NewRecord.Decision = "Pass") =>
         /\ incoming_likes' = incoming_likes
         /\ matches' = matches
         /\ likes_sent' = likes_sent
         /\ daily_logs' = daily_logs
         /\ Len(day_records') = Len(day_records) + 1
         /\ SubSeq(day_records', 1, Len(day_records)) = day_records]_vars

\* the latest decision was a Pass on an incoming candidate, whose entry is
\* still in the acting user's queue
PassChangesNothingWitness ==
    /\ pc \in {"user", "cand"}
    /\ day_records # <<>>
    /\ LET r == day_records[Len(day_records)]
       IN /\ r.Decision = "Pass"
          /\ r.Source = "incoming"
          /\ \E k \in 1..Len(incoming_likes[r.UserID]) :
                incoming_likes[r.UserID][k][1] = r.CandidateID

HasEntry(u, c) ==
    \E k \in 1..Len(incoming_likes[u]) : incoming_likes[u][k][1] = c

PassedIncoming(i) ==
    LogSoFar[i].Decision = "Pass" /\ LogSoFar[i].Source = "incoming"

SamePairAs(i, j) ==
    /\ LogSoFar[j].UserID = LogSoFar[i].UserID
    /\ LogSoFar[j].CandidateID = LogSoFar[i].CandidateID

\* the acting user of event i likes the same candidate at a position in js
LikesAgainIn(i, js) ==
    \E j \in js : SamePairAs(i, j) /\ LogSoFar[j].Decision = "Like"

OppositeGroupSize(u) ==
    IF StartsWithW(u) THEN Len(all_men_ids) ELSE Len(all_women_ids)

\* C16 as stated: once u has passed on an incoming candidate c, c's entry
\* stays pending in u's queue, and on every later day of the run an event
\* (u, c) exists and is classified incoming.
ReofferAfterPass ==
    Running =>
      \A i \in 1..Len(LogSoFar) :
         PassedIncoming(i) =>
           /\ HasEntry(LogSoFar[i].UserID, LogSoFar[i].CandidateID)
           /\ \A d \in (LogSoFar[i].Day + 1)..Len(daily_logs) :
                 \E j \in 1..Len(LogSoFar) :
                    /\ SamePairAs(i, j)
                    /\ LogSoFar[j].Day = d
                    /\ LogSoFar[j].Source = "incoming"

\* C16, amended: once u has passed on an incoming candidate c, c's entry
\* stays pending in u's queue and c stays unmatched with u until u decides
\* Like on c.  Until then every later event (u, c) is classified incoming
\* and scored P(u,c), and on every later day on which u has not yet liked
\* c, c is shown to u provided daily_queue_size is at least the size of
\* the opposite group.
ReofferUntilLiked ==
    Running =>
      \A i \in 1..Len(LogSoFar) :
         PassedIncoming(i) =>
           LET u == LogSoFar[i].UserID
               c == LogSoFar[i].CandidateID
               n == Len(LogSoFar)
           IN /\ ~LikesAgainIn(i, (i + 1)..n) =>
                    HasEntry(u, c) /\ c \notin matches[u]
              /\ \A j \in (i + 1)..n :
                    (SamePairAs(i, j) /\ ~LikesAgainIn(i, (i + 1)..(j - 1))) =>
                       /\ LogSoFar[j].Source = "incoming"
                       /\ LogSoFar[j].Score =
                             <<LogSoFar[j].LikeProbability, ProbDen>>
              /\ \A d \in (LogSoFar[i].Day + 1)..Len(daily_logs) :
                    (/\ daily_queue_size >= OppositeGroupSize(u)
                     /\ ~LikesAgainIn(i, {j \in (i + 1)..n : LogSoFar[j].Day < d}))
                    => \E j \in (i + 1)..n :
                          SamePairAs(i, j) /\ LogSoFar[j].Day = d

\* an incoming candidate is passed on day 1, passed again as incoming on
\* day 2 and liked as incoming on day 3, which forms the match
ReofferUntilLikedWitness ==
    /\ AtEnd
    /\ \E i, j, k \in 1..Len(full_log) :
          /\ i < j /\ j < k
          /\ full_log[i].UserID = full_log[j].UserID
          /\ full_log[j].UserID = full_log[k].UserID
          /\ full_log[i].CandidateID = full_log[j].CandidateID
          /\ full_log[j].CandidateID = full_log[k].CandidateID
          /\ full_log[i].Day = 1 /\ full_log[j].Day = 2 /\ full_log[k].Day = 3
          /\ full_log[i].Source = "incoming" /\ full_log[i].Decision = "Pass"
          /\ full_log[j].Source = "incoming" /\ full_log[j].Decision = "Pass"
          /\ full_log[k].Source = "incoming" /\ full_log[k].Decision = "Like"
          /\ full_log[k].MatchFormed

\* a user is about to log in
TurnStart == pc = "user" /\ login_order # <<>>

\* C17: at the start of u's turn a pool candidate c is classified incoming
\* iff u's queue holds an entry sent by c, and fresh otherwise; the class
\* given at the start of the turn is the one recorded, whatever the turn
\* does to the queues; every incoming event has Score = LikeProbability =
\* P(u,c), whatever the queue lengths and weights.
Classification ==
    /\ [](TurnStart =>
            LET u == Head(login_order)
                info == candidate_info(u, day)
            IN \A k \in 1..Len(info) :
                  /\ info[k].Source \in {"incoming", "fresh"}
                  /\ info[k].Source = "incoming" <=>
                        HasEntry(u, info[k].CandidateID))
    /\ [][TurnStart =>
            LET u == Head(login_order)
            IN /\ user' = u
               /\ \A k \in 1..Len(selected_candidates') :
                     LET r == selected_candidates'[k]
                     IN /\ r.CandidateID \in Range(candidate_pool(u))
                        /\ r.Source = "incoming" <=> HasEntry(u, r.CandidateID)
                        /\ r.Source = "fresh" <=> ~HasEntry(u, r.CandidateID)]_vars
    /\ [][DecideStep =>
            /\ NewRecord.Source = Head(selected_candidates).Source
            /\ NewRecord.CandidateID = Head(selected_candidates).CandidateID
            /\ selected_candidates' = Tail(selected_candidates)
            /\ user' = user]_vars
    /\ [](\A i \in 1..Len(LogSoFar) :
            LogSoFar[i].Source = "incoming" =>
               /\ LogSoFar[i].LikeProbability =
                     get_prob(LogSoFar[i].UserID, LogSoFar[i].CandidateID)
               /\ RatEq(LogSoFar[i].Score,
                        <<LogSoFar[i].LikeProbability, ProbDen>>))

\* one turn has shown an incoming and a fresh candidate under non-zero
\* weights, and the incoming one's entry was consumed during the turn
ClassificationWitness ==
    /\ pc \in {"user", "cand"}
    /\ weight_reciprocal >= 1
    /\ weight_queue_penalty[1] > 0
    /\ \E i, j \in 1..Len(day_records) :
          /\ i < j
          /\ day_records[i].UserID = day_records[j].UserID
          /\ day_records[i].Source = "incoming"
          /\ day_records[i].Decision = "Like"
          /\ day_records[j].Source = "fresh"
          /\ ~HasEntry(day_records[i].UserID, day_records[i].CandidateID)

\* positions of the entries sent by c in queue q
EntriesFrom(q, c) == {k \in 1..Len(q) : q[k][1] = c}

\* queue q without its k-th entry
WithoutEntry(q, k) == SubSeq(q, 1, k - 1) \o SubSeq(q, k + 1, Len(q))

\* C18: every event has Delay >= 0, and Delay = 0 for a fresh candidate.
\* For an incoming candidate c shown to u on day d, Delay = d minus the
\* least sent day among the entries from c in u's queue; when u likes c,
\* exactly that entry (the first from c, which is the earliest) leaves u's
\* queue and every other entry keeps its place in order.
DelayAndRemoval ==
    [][DecideStep =>
         LET r == NewRecord
             q == incoming_likes[user]
             from == EntriesFrom(q, r.CandidateID)
         IN /\ r.Delay >= 0
            /\ r.Source = "fresh" => r.Delay = 0
            /\ r.Source = "incoming" =>
                  /\ from # {}
                  /\ \E k \in from :
                        /\ \A m \in from : q[k][2] <= q[m][2]
                        /\ \A m \in from : k <= m
                        /\ r.Delay = r.Day - q[k][2]
                        /\ r.Decision = "Like" =>
                              /\ incoming_likes'[user] = WithoutEntry(q, k)
                              /\ \A x \in Users \ {user} :
                                    incoming_likes'[x] = incoming_likes[x]]_vars

\* the latest decision was a Like on an incoming candidate who had two
\* entries in the user's queue: the older one was consumed after a delay of
\* at least a day, the newer one is still queued
DelayAndRemovalWitness ==
    /\ pc \in {"user", "cand"}
    /\ day_records # <<>>
    /\ LET r == day_records[Len(day_records)]
       IN /\ r.Source = "incoming"
          /\ r.Decision = "Like"
          /\ r.Delay >= 1
          /\ \E k \in EntriesFrom(incoming_likes[r.UserID], r.CandidateID) :
                incoming_likes[r.UserID][k][2] > r.Day - r.Delay

\* u decided Like on c in the log so far
LikedInLog(u, c) ==
    \E i \in 1..Len(LogSoFar) :
       /\ LogSoFar[i].UserID = u
       /\ LogSoFar[i].CandidateID = c
       /\ LogSoFar[i].Decision = "Like"

\* u decided Like on c in the log so far and the Like formed no match
LikedUnmatchedInLog(u, c) ==
    \E i \in 1..Len(LogSoFar) :
       /\ LogSoFar[i].UserID = u
       /\ LogSoFar[i].CandidateID = c
       /\ LogSoFar[i].Decision = "Like"
       /\ ~LogSoFar[i].MatchFormed

SentLikesNeverShrink ==
    [][Running => \A u \in Users : likes_sent[u] \subseteq likes_sent'[u]]_vars

\* C19 as stated: c is in likes_sent[u] iff the log so far holds an event
\* with acting user u, candidate c and Decision = Like; the set never
\* shrinks.
SentLikesAllLikes ==
    /\ [](Running =>
            \A u, c \in Users : c \in likes_sent[u] <=> LikedInLog(u, c))
    /\ SentLikesNeverShrink

\* C19, amended: c is in likes_sent[u] iff the log so far holds an event
\* with acting user u, candidate c, Decision = Like and MatchFormed false
\* (a Like that completes a match is not recorded in the set); the set
\* never shrinks.
SentLikesUnmatched ==
    /\ [](Running =>
            \A u, c \in Users :
               c \in likes_sent[u] <=> LikedUnmatchedInLog(u, c))
    /\ SentLikesNeverShrink

\* a user holds two sent likes, and another user's Like completed a match
\* without entering that user's set
SentLikesUnmatchedWitness ==
    /\ AtEnd
    /\ \E u \in Users : Cardinality(likes_sent[u]) >= 2
    /\ \E u, c \in Users : LikedInLog(u, c) /\ c \notin likes_sent[u]

\* Q(c): the number of entries in c's queue
QueueLen(c) == Len(incoming_likes[c])

\* P(u,c) * 1/(1 + w_q * Q(c)) * P(c,u)^w_r as a fraction, w_q = wn/wd
ExpectedFreshScore(u, c) ==
    LET wn == weight_queue_penalty[1]
        wd == weight_queue_penalty[2]
        rec == Pow(get_reciprocal(u, c), weight_reciprocal)
    IN <<get_prob(u, c) * wd * rec,
         ProbDen * (wd + wn * QueueLen(c)) * Pow(ProbDen, weight_reciprocal)>>

\* position of candidate c in a list of candidate records, 0 if absent
PositionOf(c, recs) ==
    IF \E k \in 1..Len(recs) : recs[k].CandidateID = c
    THEN CHOOSE k \in 1..Len(recs) : recs[k].CandidateID = c
    ELSE 0

\* fresh candidates of u with equal non-zero forward and reciprocal
\* probabilities, c1 with the strictly shorter queue
ShorterQueuePair(u, c1, c2) ==
    /\ c1 \in Range(candidate_pool(u)) /\ c2 \in Range(candidate_pool(u))
    /\ ~HasEntry(u, c1) /\ ~HasEntry(u, c2)
    /\ get_prob(u, c1) = get_prob(u, c2) /\ get_prob(u, c1) # 0
    /\ get_reciprocal(u, c1) = get_reciprocal(u, c2)
    /\ get_reciprocal(u, c1) # 0
    /\ QueueLen(c1) < QueueLen(c2)

TurnRecords(u) == {i \in 1..Len(day_records) : day_records[i].UserID = u}

\* size of u's pool when u's turn of the open day began: the opposite
\* group less the users matched with u before the turn
PoolSizeAtTurnStart(u) ==
    OppositeGroupSize(u)
      - (Cardinality(matches[u])
           - Cardinality({i \in TurnRecords(u) : day_records[i].MatchFormed}))

\* the user variable holds the user whose turn of the open day is running
\* or was the last to run
InOrAfterTurn ==
    \/ pc = "cand"
    \/ pc = "user" /\ Len(login_order) < Len(all_user_ids)

\* C21: the log holds one record per shown (day, acting user, candidate)
\* triple and no triple twice; for daily_queue_size K >= 1 a turn
\* contributes exactly min(K, size of the user's pool at the start of the
\* turn) records, one per decision in processing order; records already in
\* the log are never changed or removed.
EventLogShape ==
    /\ [](Running =>
            \A i, j \in 1..Len(LogSoFar) :
               (/\ LogSoFar[i].Day = LogSoFar[j].Day
                /\ LogSoFar[i].UserID = LogSoFar[j].UserID
                /\ LogSoFar[i].CandidateID = LogSoFar[j].CandidateID) => i = j)
    /\ []((InOrAfterTurn /\ daily_queue_size >= 1) =>
            Cardinality(TurnRecords(user)) + Len(selected_candidates)
               = Min2(daily_queue_size, PoolSizeAtTurnStart(user)))
    /\ [][(TurnStart /\ daily_queue_size >= 1) =>
            LET u == Head(login_order)
                pool == IF StartsWithW(u)
                        THEN Range(all_men_ids) \ matches[u]
                        ELSE Range(all_women_ids) \ matches[u]
            IN /\ Len(selected_candidates')
                    = Min2(daily_queue_size, Cardinality(pool))
               /\ TurnRecords(u) = {}
               /\ day_records' = day_records]_vars
    /\ [][DecideStep =>
            /\ day_records' = Append(day_records, NewRecord)
            /\ NewRecord.Day = day
            /\ NewRecord.UserID = user
            /\ NewRecord.CandidateID = Head(selected_candidates).CandidateID
            /\ selected_candidates' = Tail(selected_candidates)]_vars
    /\ [][Running =>
            /\ Len(LogSoFar') >= Len(LogSoFar)
            /\ SubSeq(LogSoFar', 1, Len(LogSoFar)) = LogSoFar]_vars

\* a run with queue size 1 is over: one user's turn was cut to one record
\* out of a pool of two, and a matched user's last turn had an empty pool
\* and contributed nothing
EventLogShapeWitness ==
    /\ AtEnd
    /\ daily_queue_size = 1
    /\ \E v \in Users :
          /\ OppositeGroupSize(v) = 2
          /\ Cardinality({i \in 1..Len(full_log) :
                full_log[i].UserID = v /\ full_log[i].Day = 1}) = 1
    /\ \E u \in Users :
          /\ Cardinality(matches[u]) = OppositeGroupSize(u)
          /\ \A i \in 1..Len(full_log) :
                full_log[i].UserID = u => full_log[i].Day < num_days

\* C22: for every event, MatchFormed is true iff Source = incoming and
\* Decision = Like: a Like on a fresh candidate never forms a match and a
\* Like on an incoming candidate always does, since every pending entry
\* from sender s in u's queue has u in s's sent-likes set, and a user in
\* likes_sent[s] who is not matched with s holds an entry from s.
MatchIffIncomingLike ==
    Running =>
      /\ \A i \in 1..Len(LogSoFar) :
            LogSoFar[i].MatchFormed <=>
               (LogSoFar[i].Source = "incoming" /\ LogSoFar[i].Decision = "Like")
      /\ \A u \in Users : \A k \in 1..Len(incoming_likes[u]) :
            u \in likes_sent[incoming_likes[u][k][1]]
      /\ \A s \in Users : \A u \in likes_sent[s] :
            s \notin matches[u] => HasEntry(u, s)

\* the log holds a Like on a fresh candidate, a Pass on an incoming one and
\* a Like on an incoming one, the last alone having formed a match
MatchIffIncomingLikeWitness ==
    /\ AtEnd
    /\ \E i, j, k \in 1..Len(full_log) :
          /\ full_log[i].Source = "fresh" /\ full_log[i].Decision = "Like"
          /\ ~full_log[i].MatchFormed
          /\ full_log[j].Source = "incoming" /\ full_log[j].Decision = "Pass"
          /\ ~full_log[j].MatchFormed
          /\ full_log[k].Source = "incoming" /\ full_log[k].Decision = "Like"
          /\ full_log[k].MatchFormed

\* C23: each user's queue holds at most one entry from any given sender,
\* and no queue holds an entry whose sender is matched with its owner.
OnePendingPerSender ==
    Running =>
      \A u \in Users :
         /\ \A k1, k2 \in 1..Len(incoming_likes[u]) :
               incoming_likes[u][k1][1] = incoming_likes[u][k2][1] => k1 = k2
         /\ \A k \in 1..Len(incoming_likes[u]) :
               incoming_likes[u][k][1] \notin matches[u]

\* every entry of every queue, as (owner, position)
PendingEntries ==
    UNION {{<<u, k>> : k \in 1..Len(incoming_likes[u])} : u \in Users}

LikesFrom(log, source) ==
    Cardinality({i \in 1..Len(log) :
                    log[i].Source = source /\ log[i].Decision = "Like"})

\* C24: after every processed decision the number of entries over all
\* queues equals the number of events so far with Source = fresh and
\* Decision = Like minus the number with Source = incoming and Decision =
\* Like; at run end the reported unseen likes (men's plus women's) equal
\* that difference; every entry's sent day lies between 1 and the current
\* day.
QueueBalance ==
    Running =>
      /\ Cardinality(PendingEntries)
            = LikesFrom(LogSoFar, "fresh") - LikesFrom(LogSoFar, "incoming")
      /\ AtEnd =>
            /\ metrics.total_unseen
                  = LikesFrom(full_log, "fresh") - LikesFrom(full_log, "incoming")
            /\ metrics.unseen_likes_men + metrics.unseen_likes_women
                  = metrics.total_unseen
      /\ \A u \in Users : \A k \in 1..Len(incoming_likes[u]) :
            incoming_likes[u][k][2] \in 1..day

\* a run is over with likes left unseen in two users' queues, after likes
\* on fresh candidates and at least one like on an incoming candidate
QueueBalanceWitness ==
    /\ AtEnd
    /\ LikesFrom(full_log, "incoming") >= 1
    /\ LikesFrom(full_log, "fresh") >= 3
    /\ \E u, v \in Users :
          u # v /\ incoming_likes[u] # <<>> /\ incoming_likes[v] # <<>>

====
